---- MODULE Spec2Model ----
(***************************************************************************)
(* Model of the transpiler installers of                                   *)
(* src/databricks/labs/remorph/install.py: TranspilerInstaller,            *)
(* PypiInstaller and MavenInstaller, acting on one engine name.            *)
(*                                                                         *)
(* The file system is reduced to the two sibling paths the installers      *)
(* touch, <transpilers>/<engine> (root) and <transpilers>/<engine>-saved   *)
(* (saved).  One install call is a sequence of steps, one per file-system  *)
(* or subprocess operation of the code; pc is the position of the call.    *)
(* Strings are sequences of one-character strings.                         *)
(*                                                                         *)
(* Modelling assumptions: rmtree and os.rename are single steps; the       *)
(* optional install script does not delete files of lib.                   *)
(***************************************************************************)
EXTENDS Integers, Sequences, FiniteSets, TLC

VARIABLES
  root,       \* directory at <transpilers>/<engine>
  saved,      \* directory at <transpilers>/<engine>-saved
  platform,   \* sys.platform of the process
  pc,         \* position of the install call in progress, "idle" between calls
  kind,       \* installer of the call: "pypi" or "maven"
  latest,     \* result of the registry lookup of the call
  installed,  \* result of get_installed_version in the call
  failure,    \* <<step, exception>> of the producer failure of the call, or <<>>
  ret,        \* how the last call ended
  pre,        \* root and saved when the call started
  hadValid,   \* a complete install existed at the root path at some point
  calls,      \* number of install calls started
  cwd,        \* working directory of the process (os.getcwd / os.chdir)
  thr,        \* per thread: position in its Pypi producer, its local cwd, its result
  tree,       \* per directory: whether it holds .venv, and the packages installed there
  metadata,   \* maven-metadata.xml handed to _extract_latest_release_version
  resolved,   \* what _extract_latest_release_version returned for it
  target,     \* the target file of download_artifact_from_maven
  dlret,      \* what the last download_artifact_from_maven returned
  fetches,    \* number of urlretrieve calls made
  dcalls,     \* number of download_artifact_from_maven calls made
  ptarget,    \* the target file of download_artifact_from_pypi
  pret,       \* what the last download_artifact_from_pypi returned or raised
  purl,       \* the file name the last download_artifact_from_pypi asked for
  pcalls,     \* number of download_artifact_from_pypi calls made
  listing,    \* the engines root directory as os.listdir gives it
  query,      \* the last discovery query and its result
  java,       \* what running 'java -version' gives on this machine
  morpheus    \* how the last install_morpheus call ended

\* The variables of the install calls on one engine, and those of the
\* specifications of concurrent calls, of the Maven and PyPI client
\* functions and of the discovery queries.
ivars == <<root, saved, platform, pc, kind, latest, installed, failure, ret, pre, hadValid, calls>>
tvars == <<cwd, thr, tree>>
mvars == <<metadata, resolved, target, dlret, fetches, dcalls>>
pvars == <<ptarget, pret, purl, pcalls>>
dvars == <<listing, query>>
jvars == <<java, morpheus>>
auxvars == <<tvars, mvars, pvars, dvars, jvars>>
vars == <<ivars, auxvars>>

\* Number of install calls explored in one behaviour.
MaxCalls == 2

(***************************************************************************)
(* Values                                                                  *)
(***************************************************************************)
\* Version strings the registry can report.
RegistryVersions == {<<"1">>, <<"2">>}

\* Python results: None, a string, or a raised exception.
None == [tag |-> "None", val |-> <<>>]
Str(s) == [tag |-> "str", val |-> s]
Raise(e) == [tag |-> "raise", val |-> <<e>>]

\* The "version" entry of the JSON object stored in version.json.
Missing == [t |-> "missing", s |-> <<>>]
JNull == [t |-> "null", s |-> <<>>]
\* A JSON number, kept as its digits.
JNumber(digits) == [t |-> "number", s |-> digits]
JString(s) == [t |-> "string", s |-> s]

\* Content of <engine>/state: no state directory, a state directory without
\* version.json, or version.json in one of its forms.
NoState == [form |-> "nostate", version |-> Missing]
NoFile == [form |-> "nofile", version |-> Missing]
Unreadable == [form |-> "unreadable", version |-> Missing]
NotJson == [form |-> "notjson", version |-> Missing]
JsonArray == [form |-> "array", version |-> Missing]
JsonObject(v) == [form |-> "object", version |-> v]

\* A directory at the root or the saved path.
\*   lib    : the lib subdirectory exists
\*   venv   : layout of lib/.venv
\*   pkg    : what the package installer put in site-packages
\*   files  : files and folders directly under lib
\*   jar    : content of lib/<artifact>.jar
\*   ver    : version of the artifact the payload came from
\*   state  : content of the state subdirectory
Absent ==
  [exists |-> FALSE, lib |-> FALSE, venv |-> "none", pkg |-> {},
   files |-> {}, jar |-> "none", ver |-> <<>>, state |-> NoState]

EmptyDir == [Absent EXCEPT !.exists = TRUE]

\* As VersionData, without the "v" marker in front of the version.
VersionData_noprefix(version) == JsonObject(JString(version))

\* _store_product_state: the record written for a version
VersionData(version) == JsonObject(JString(<<"v">> \o version))

(***************************************************************************)
(* TranspilerInstaller.get_installed_version                               *)
(***************************************************************************)
Falsy(v) ==
  \/ v.t \in {"missing", "null"}
  \/ v.t = "number" /\ v.s = <<"0">>
  \/ v.t = "string" /\ v.s = <<>>

StartsWithV(s) == Len(s) >= 1 /\ s[1] = "v"

\* As get_installed_version, returning the stored string with its "v".
get_installed_version_nostrip(dir) ==
  IF ~dir.exists \/ dir.state.form \in {"nostate", "nofile"} THEN None
  ELSE IF dir.state.form = "unreadable" THEN Raise("UnicodeDecodeError")
  ELSE IF dir.state.form = "notjson" THEN Raise("JSONDecodeError")
  ELSE IF dir.state.form = "array" THEN Raise("AttributeError")
  ELSE LET version == dir.state.version IN
    IF Falsy(version) THEN None
    ELSE IF version.t # "string" THEN Raise("AttributeError")
    ELSE IF ~StartsWithV(version.s) THEN None
    ELSE Str(version.s)

\* As get_installed_version, without the "not version" test of line 77.
get_installed_version_nofalsy(dir) ==
  IF ~dir.exists \/ dir.state.form \in {"nostate", "nofile"} THEN None
  ELSE IF dir.state.form = "unreadable" THEN Raise("UnicodeDecodeError")
  ELSE IF dir.state.form = "notjson" THEN Raise("JSONDecodeError")
  ELSE IF dir.state.form = "array" THEN Raise("AttributeError")
  ELSE LET version == dir.state.version IN
    IF version.t # "string" THEN Raise("AttributeError")
    ELSE IF ~StartsWithV(version.s) THEN None
    ELSE Str(Tail(version.s))

\* As get_installed_version, dropping every leading "v" of the stored string.
RECURSIVE StripV(_)
StripV(s) == IF StartsWithV(s) THEN StripV(Tail(s)) ELSE s
get_installed_version_stripall(dir) ==
  IF ~dir.exists \/ dir.state.form \in {"nostate", "nofile"} THEN None
  ELSE IF dir.state.form = "unreadable" THEN Raise("UnicodeDecodeError")
  ELSE IF dir.state.form = "notjson" THEN Raise("JSONDecodeError")
  ELSE IF dir.state.form = "array" THEN Raise("AttributeError")
  ELSE LET version == dir.state.version IN
    IF Falsy(version) THEN None
    ELSE IF version.t # "string" THEN Raise("AttributeError")
    ELSE IF ~StartsWithV(version.s) THEN None
    ELSE Str(StripV(version.s))

get_installed_version(dir) ==
  IF ~dir.exists \/ dir.state.form \in {"nostate", "nofile"} THEN None
  ELSE IF dir.state.form = "unreadable" THEN Raise("UnicodeDecodeError")
  ELSE IF dir.state.form = "notjson" THEN Raise("JSONDecodeError")
  ELSE IF dir.state.form = "array" THEN Raise("AttributeError")
  ELSE LET version == dir.state.version IN
    IF Falsy(version) THEN None
    ELSE IF version.t # "string" THEN Raise("AttributeError")
    ELSE IF ~StartsWithV(version.s) THEN None
    ELSE Str(Tail(version.s))

(***************************************************************************)
(* Registry lookups                                                        *)
(***************************************************************************)
\* What the registry answers: the transport outcome and the body.
PypiResponses ==
  [net : {"HTTPError", "URLError"}, body : {"none"}, version : {<<>>}]
  \cup [net : {"ok"}, body : {"notjson", "noversion"}, version : {<<>>}]
  \cup [net : {"ok"}, body : {"version"}, version : RegistryVersions]

\* PypiInstaller.get_pypi_artifact_version: only HTTPError is caught.
get_pypi_artifact_version(resp) ==
  IF resp.net = "HTTPError" THEN None
  ELSE IF resp.net = "URLError" THEN Raise("URLError")
  ELSE IF resp.body = "notjson" THEN Raise("JSONDecodeError")
  ELSE IF resp.body = "noversion" THEN None
  ELSE Str(resp.version)

\* maven-metadata.xml: not well-formed, or the three places a version is read from.
OptVersions == {None} \cup {Str(v) : v \in RegistryVersions}
VersionLists == {<<>>} \cup {<<v>> : v \in RegistryVersions}
                \cup {<<v, w>> : v, w \in RegistryVersions}
NotXml == [wellformed |-> FALSE, release |-> None, latest |-> None, versions |-> <<>>]
MavenMetadata ==
  {NotXml} \cup
  [wellformed : {TRUE}, release : OptVersions, latest : OptVersions, versions : VersionLists]
MavenResponses ==
  [net : {"HTTPError", "URLError"}, metadata : {NotXml}]
  \cup [net : {"ok"}, metadata : MavenMetadata]

\* _extract_latest_release_version with the labels of line 348 swapped.
_extract_latest_release_version_latestfirst(md) ==
  IF ~md.wellformed THEN Raise("ParseError")
  ELSE IF md.latest # None THEN md.latest
  ELSE IF md.release # None THEN md.release
  ELSE IF md.versions # <<>> THEN Str(md.versions[Len(md.versions)])
  ELSE None

\* _extract_latest_release_version with version[1] for version[last()].
_extract_latest_release_version_firstversion(md) ==
  IF ~md.wellformed THEN Raise("ParseError")
  ELSE IF md.release # None THEN md.release
  ELSE IF md.latest # None THEN md.latest
  ELSE IF md.versions # <<>> THEN Str(md.versions[1])
  ELSE None

\* MavenInstaller._extract_latest_release_version
_extract_latest_release_version(md) ==
  IF ~md.wellformed THEN Raise("ParseError")
  ELSE IF md.release # None THEN md.release
  ELSE IF md.latest # None THEN md.latest
  ELSE IF md.versions # <<>> THEN Str(md.versions[Len(md.versions)])
  ELSE None

\* MavenInstaller.get_current_maven_artifact_version: only HTTPError is caught.
get_current_maven_artifact_version(resp) ==
  IF resp.net = "HTTPError" THEN None
  ELSE IF resp.net = "URLError" THEN Raise("URLError")
  ELSE _extract_latest_release_version(resp.metadata)

(***************************************************************************)
(* Directories                                                             *)
(***************************************************************************)
\* A directory without entries (os.rename replaces such a destination on POSIX).
IsEmptyDir(dir) ==
  /\ dir.exists
  /\ ~dir.lib
  /\ dir.state.form = "nostate"

\* version.json holds a "v..." string: what _store_product_state writes.
HasVersionRecord(dir) ==
  /\ dir.exists
  /\ dir.state.form = "object"
  /\ dir.state.version.t = "string"
  /\ StartsWithV(dir.state.version.s)

\* A complete install: lib/config.yml plus a VersionRecord.
IsValidInstall(dir) ==
  /\ dir.exists
  /\ dir.lib
  /\ "config.yml" \in dir.files
  /\ HasVersionRecord(dir)

\* What a committed Maven install of version v leaves at the root path.
MavenInstall(v) ==
  [exists |-> TRUE, lib |-> TRUE, venv |-> "none", pkg |-> {},
   files |-> {"jar", "config.yml"}, jar |-> "good", ver |-> v, state |-> VersionData(v)]

\* Version records that are not what _store_product_state writes.
CorruptStates ==
  {NoFile, Unreadable, NotJson, JsonArray,
   JsonObject(Missing), JsonObject(JNull), JsonObject(JNumber(<<"0">>)), JsonObject(JNumber(<<"1">>)),
   JsonObject(JString(<<>>)), JsonObject(JString(<<"1">>)),
   JsonObject(JString(<<"v">>)), JsonObject(JString(<<"v", "x">>))}

\* The root directories a behaviour starts from: nothing installed, a
\* committed install, or an install whose version record was damaged.
InitialRoots ==
  {Absent}
  \cup {MavenInstall(v) : v \in RegistryVersions}
  \cup {[MavenInstall(<<"1">>) EXCEPT !.state = st] : st \in CorruptStates}

(***************************************************************************)
(* Ends of a call                                                          *)
(***************************************************************************)
NoCall == [tag |-> "none", val |-> <<>>, at |-> "idle"]
Return(tag, val, at) == [tag |-> tag, val |-> val, at |-> at]

\* As PypiCaught, with the except clause naming CalledProcessError only.
PypiCaught_noValueError == {"CalledProcessError"}

\* Exceptions the except clause of each installer catches (lines 215, 418).
PypiCaught == {"CalledProcessError", "ValueError"}
MavenCaught == {"KeyError", "ValueError"}
Caught(k) == IF k = "pypi" THEN PypiCaught ELSE MavenCaught

(***************************************************************************)
(* Values of the concurrent calls and of the Maven client functions        *)
(***************************************************************************)
\* Two engines, each installed by its own thread of one process; the name
\* also stands for the engine's install path <transpilers>/<engine>/lib.
Threads == {"A", "B"}
\* The directories a working directory can be: where the process started,
\* or an install path.
Dirs == {"orig"} \cup Threads

NotCalled == [pc |-> "off", cwd |-> "orig", exc |-> "none", result |-> "none"]
Called == [NotCalled EXCEPT !.pc = "venv_getcwd"]
EmptyTree == [d \in Dirs |-> [venv |-> FALSE, pkgs |-> {}]]

NoTarget == [exists |-> FALSE, content |-> <<>>]
Unset == [tag |-> "unset", val |-> <<>>]

\* No concurrent calls and no Maven client function under study.
ThreadsIdle ==
  /\ cwd = "orig"
  /\ thr = [t \in Threads |-> NotCalled]
  /\ tree = EmptyTree
MavenIdle ==
  /\ metadata = NotXml
  /\ resolved = Unset
  /\ target = NoTarget
  /\ dlret = "unset"
  /\ fetches = 0
  /\ dcalls = 0

\* No PyPI download and no discovery query under study.
NoListing == [exists |-> FALSE, entries |-> <<>>]
NoQuery == [fn |-> "none", args |-> <<>>, result |-> Unset]
PypiIdle ==
  /\ ptarget = NoTarget
  /\ pret = "unset"
  /\ purl = <<>>
  /\ pcalls = 0
DiscoveryIdle ==
  /\ listing = NoListing
  /\ query = NoQuery
NoJava == [exit |-> "none", marker |-> FALSE, open |-> FALSE, close |-> FALSE, version |-> <<>>]
JavaIdle ==
  /\ java = NoJava
  /\ morpheus = Unset

Init ==
  /\ root \in InitialRoots
  /\ saved = Absent
  /\ platform \in {"linux", "win32"}
  /\ pc = "idle"
  /\ kind = "none"
  /\ latest = None
  /\ installed = [tag |-> "unset", val |-> <<>>]
  /\ failure = <<>>
  /\ ret = NoCall
  /\ pre = [root |-> root, saved |-> saved]
  /\ hadValid = IsValidInstall(root)
  /\ calls = 0
  /\ ThreadsIdle
  /\ MavenIdle
  /\ PypiIdle
  /\ DiscoveryIdle
  /\ JavaIdle

\* The call ends by returning or raising at step `at`.
End(tag, val, at) ==
  /\ pc' = "idle"
  /\ ret' = Return(tag, val, at)

\* An exception e raised by producer step `at`, inside the try block: the
\* except clause either starts the rollback or lets it propagate.
ProducerRaises(e, at) ==
  /\ failure' = <<at, e>>
  /\ IF e \in Caught(kind)
       THEN pc' = "rollback1" /\ ret' = ret
       ELSE End("raise", <<e>>, at)

(***************************************************************************)
(* install -> _install_checking_versions                                   *)
(***************************************************************************)
\* install(): the registry lookup that starts a call (lines 188-192, 388-392).
Resolve(k, result) ==
  /\ pc = "idle"
  /\ calls < MaxCalls
  /\ calls' = calls + 1
  /\ kind' = k
  /\ pre' = [root |-> root, saved |-> saved]
  /\ latest' = result
  /\ installed' = [tag |-> "unset", val |-> <<>>]
  /\ failure' = <<>>
  /\ IF result.tag = "raise" THEN End("raise", result.val, "resolve")
     ELSE IF result = None THEN End("None", <<>>, "resolve")
     ELSE pc' = "check" /\ ret' = NoCall
  /\ UNCHANGED <<root, saved, platform, hadValid>>
  /\ query' = NoQuery
  /\ UNCHANGED <<tvars, mvars, pvars, listing, jvars>>

ResolvePypi ==
  \E resp \in PypiResponses : Resolve("pypi", get_pypi_artifact_version(resp))

ResolveMaven ==
  \E resp \in MavenResponses : Resolve("maven", get_current_maven_artifact_version(resp))

\* _install_checking_versions without the comparison of lines 194 / 394.
CheckVersions_noskip ==
  /\ pc = "check"
  /\ installed' = get_installed_version(root)
  /\ IF installed'.tag = "raise" THEN End("raise", installed'.val, "check")
     ELSE /\ pc' = IF kind = "maven" THEN "clear" ELSE "backup"
          /\ ret' = ret
  /\ UNCHANGED <<root, saved, platform, kind, latest, failure, pre, hadValid, calls>>
  /\ UNCHANGED auxvars

\* Lines 193-197, 393-397: compare the installed version with the latest one.
CheckVersions ==
  /\ pc = "check"
  /\ installed' = get_installed_version(root)
  /\ IF installed'.tag = "raise" THEN End("raise", installed'.val, "check")
     ELSE IF installed' = latest THEN End("None", <<>>, "check")
     ELSE /\ pc' = IF kind = "maven" THEN "clear" ELSE "backup"
          /\ ret' = ret
  /\ UNCHANGED <<root, saved, platform, kind, latest, failure, pre, hadValid, calls>>
  /\ UNCHANGED auxvars

(***************************************************************************)
(* _install_latest_version (Pypi) and _install_version (Maven)             *)
(***************************************************************************)
\* os.rename(src, dst) of a directory succeeds when dst is absent, and on
\* POSIX also when dst is an empty directory; otherwise it raises OSError.
CanRenameOnto(dst) ==
  \/ ~dst.exists
  \/ platform # "win32" /\ IsEmptyDir(dst)

\* As ClearStaleBackup, leaving a leftover backup directory in place.
ClearStaleBackup_keep ==
  /\ pc = "clear"
  /\ pc' = "backup"
  /\ UNCHANGED <<root, saved, platform, kind, latest, installed, failure, ret, pre, hadValid, calls>>
  /\ UNCHANGED auxvars

\* Lines 404-405 (Maven only): remove a backup directory found at the start.
ClearStaleBackup ==
  /\ pc = "clear"
  /\ saved' = Absent
  /\ pc' = "backup"
  /\ UNCHANGED <<root, platform, kind, latest, installed, failure, ret, pre, hadValid, calls>>
  /\ UNCHANGED auxvars

\* Lines 204-205, 406-407: move the existing root aside.
BackupExisting ==
  /\ pc = "backup"
  /\ IF ~root.exists
       THEN pc' = "mkroot" /\ UNCHANGED <<root, saved, ret>>
       ELSE IF CanRenameOnto(saved)
         THEN pc' = "mkroot" /\ saved' = root /\ root' = Absent /\ ret' = ret
         ELSE End("raise", <<"OSError">>, "backup") /\ UNCHANGED <<root, saved>>
  /\ UNCHANGED <<platform, kind, latest, installed, failure, pre, hadValid, calls>>
  /\ UNCHANGED auxvars

\* Lines 206, 408: self._product_path.mkdir(parents=True)
MakeRoot ==
  /\ pc = "mkroot"
  /\ IF root.exists
       THEN End("raise", <<"FileExistsError">>, "mkroot") /\ root' = root
       ELSE pc' = "mklib" /\ root' = EmptyDir /\ ret' = ret
  /\ UNCHANGED <<saved, platform, kind, latest, installed, failure, pre, hadValid, calls>>
  /\ UNCHANGED auxvars

\* Lines 207-208, 409-410: self._install_path.mkdir()
MakeLib ==
  /\ pc = "mklib"
  /\ root' = [root EXCEPT !.lib = TRUE]
  /\ pc' = IF kind = "pypi" THEN "venv" ELSE "download"
  /\ UNCHANGED <<saved, platform, kind, latest, installed, failure, ret, pre, hadValid, calls>>
  /\ UNCHANGED auxvars

\* As Commit, returning without deleting the backup.
Commit_keepbackup ==
  /\ pc = "commit"
  /\ End("path", <<IF kind = "pypi" THEN "lib" ELSE "root">>, "commit")
  /\ UNCHANGED <<root, saved, platform, kind, latest, installed, failure, pre, hadValid, calls>>
  /\ UNCHANGED auxvars

\* Lines 211-214, 413-417: the producer succeeded; drop the backup and return.
Commit ==
  /\ pc = "commit"
  /\ saved' = Absent
  /\ End("path", <<IF kind = "pypi" THEN "lib" ELSE "root">>, "commit")
  /\ UNCHANGED <<root, platform, kind, latest, installed, failure, pre, hadValid, calls>>
  /\ UNCHANGED auxvars

\* Lines 217, 420: rmtree(self._product_path)
RemoveFresh ==
  /\ pc = "rollback1"
  /\ root' = Absent
  /\ pc' = "rollback2"
  /\ UNCHANGED <<saved, platform, kind, latest, installed, failure, ret, pre, hadValid, calls>>
  /\ UNCHANGED auxvars

\* Lines 218-220, 421-423: put the backup back and return None.
RestoreBackup ==
  /\ pc = "rollback2"
  /\ IF saved.exists
       THEN root' = saved /\ saved' = Absent
       ELSE UNCHANGED <<root, saved>>
  /\ End("None", <<>>, "rollback")
  /\ hadValid' = (hadValid \/ IsValidInstall(root'))
  /\ UNCHANGED <<platform, kind, latest, installed, failure, pre, calls>>
  /\ UNCHANGED auxvars

\* _store_product_state (lines 140-148), called at line 295 and line 414:
\* state_path.mkdir() and the write of version.json; either can fail with OSError.
\* The root is always the fresh one here, so the state directory does not exist yet.
StoreProductState ==
  /\ pc = "store"
  /\ \/ /\ root.state.form = "nostate"
        /\ root' = [root EXCEPT !.state = VersionData(latest.val)]
        /\ pc' = "commit"
        /\ UNCHANGED <<failure, ret>>
     \/ /\ root.state.form = "nostate"
        /\ \E st \in {NoState, NoFile} : root' = [root EXCEPT !.state = st]
        /\ ProducerRaises("OSError", "store")
  /\ hadValid' = (hadValid \/ IsValidInstall(root'))
  /\ UNCHANGED <<saved, platform, kind, latest, installed, pre, calls>>
  /\ UNCHANGED auxvars

\* The process is killed, or KeyboardInterrupt is raised, in the middle of a
\* call: neither except clause (lines 215, 418) handles it and there is no
\* finally clause, so the directories stay as they are.
Interrupt ==
  /\ pc # "idle"
  /\ End("interrupted", <<>>, pc)
  /\ UNCHANGED <<root, saved, platform, kind, latest, installed, failure, pre, hadValid, calls>>
  /\ UNCHANGED auxvars

(***************************************************************************)
(* Pypi producer: _unsafe_install_latest_version                           *)
(***************************************************************************)
\* Layout of the environment "python -m venv .venv" leaves on exit code 0.
VenvLayouts == {"site", "nosite"}

\* _locate_site_packages_windows: .venv/Lib/site-packages must exist.
_locate_site_packages_windows(layout) ==
  IF layout = "site" THEN Str(<<"site-packages">>) ELSE Raise("ValueError")

\* _locate_site_packages_linux_or_macos: first .venv/lib/python*/site-packages.
_locate_site_packages_linux_or_macos(layout) ==
  IF layout = "site" THEN Str(<<"site-packages">>) ELSE Raise("ValueError")

_locate_site_packages(layout) ==
  IF platform = "win32" THEN _locate_site_packages_windows(layout)
  ELSE _locate_site_packages_linux_or_macos(layout)

\* _create_venv (lines 228-240)
CreateVenv ==
  /\ pc = "venv"
  /\ \/ /\ root' = [root EXCEPT !.venv = "partial"]
        /\ ProducerRaises("CalledProcessError", "venv")
     \/ \E layout \in VenvLayouts :
          /\ root' = [root EXCEPT !.venv = layout]
          /\ IF _locate_site_packages(layout).tag = "raise"
               THEN ProducerRaises("ValueError", "venv")
               ELSE pc' = "pip" /\ UNCHANGED <<failure, ret>>
  /\ UNCHANGED <<saved, platform, kind, latest, installed, pre, hadValid, calls>>
  /\ UNCHANGED auxvars

\* What the installed package can hold in site-packages: no lsp folder, an
\* empty lsp folder, or an lsp folder with config.yml and possibly an install
\* script for one of the platforms.
Packages ==
  {{}, {"lsp"}, {"lsp", "config.yml"},
   {"lsp", "config.yml", "installer.sh"}, {"lsp", "config.yml", "installer.ps1"}}

\* _install_from_pip (lines 263-275)
InstallFromPip ==
  /\ pc = "pip"
  /\ \/ /\ root' = root
        /\ ProducerRaises("CalledProcessError", "pip")
     \/ \E pkg \in Packages :
          /\ root' = [root EXCEPT !.pkg = pkg, !.ver = latest.val]
          /\ pc' = "copy"
          /\ UNCHANGED <<failure, ret>>
  /\ UNCHANGED <<saved, platform, kind, latest, installed, pre, hadValid, calls>>
  /\ UNCHANGED auxvars

\* _copy_lsp_resources (lines 280-284)
CopyLspResources ==
  /\ pc = "copy"
  /\ \/ /\ "lsp" \notin root.pkg
        /\ root' = root
        /\ ProducerRaises("ValueError", "copy")
     \/ /\ "lsp" \in root.pkg
        /\ root' = [root EXCEPT !.files = @ \cup (root.pkg \ {"lsp"})]
        /\ pc' = "post"
        /\ UNCHANGED <<failure, ret>>
  /\ UNCHANGED <<saved, platform, kind, latest, installed, pre, hadValid, calls>>
  /\ UNCHANGED auxvars

\* Lines 290-291: the install script of this platform.
InstallScript == IF platform = "win32" THEN "installer.ps1" ELSE "installer.sh"

\* _post_install without the check of lines 287-289.
PostInstall_nocheck ==
  /\ pc = "post"
  /\ pc' = IF InstallScript \in root.files THEN "script" ELSE "store"
  /\ UNCHANGED <<failure, ret>>
  /\ UNCHANGED <<root, saved, platform, kind, latest, installed, pre, hadValid, calls>>
  /\ UNCHANGED auxvars

\* As PostInstall, never running an install script.
PostInstall_noscript ==
  /\ pc = "post"
  /\ IF "config.yml" \notin root.files
       THEN ProducerRaises("ValueError", "post")
       ELSE pc' = "store" /\ UNCHANGED <<failure, ret>>
  /\ UNCHANGED <<root, saved, platform, kind, latest, installed, pre, hadValid, calls>>
  /\ UNCHANGED auxvars

\* _post_install up to the state write (lines 287-294)
PostInstall ==
  /\ pc = "post"
  /\ IF "config.yml" \notin root.files
       THEN ProducerRaises("ValueError", "post")
       ELSE /\ pc' = IF InstallScript \in root.files THEN "script" ELSE "store"
            /\ UNCHANGED <<failure, ret>>
  /\ UNCHANGED <<root, saved, platform, kind, latest, installed, pre, hadValid, calls>>
  /\ UNCHANGED auxvars

\* _run_custom_installer (lines 298-300): exit code 0, a non-zero exit code,
\* or a script the system refuses to execute.
RunCustomInstaller ==
  /\ pc = "script"
  /\ \/ pc' = "store" /\ UNCHANGED <<failure, ret>>
     \/ ProducerRaises("CalledProcessError", "script")
     \/ ProducerRaises("PermissionError", "script")
  /\ UNCHANGED <<root, saved, platform, kind, latest, installed, pre, hadValid, calls>>
  /\ UNCHANGED auxvars

(***************************************************************************)
(* Maven producer: _unsafe_install_version                                 *)
(***************************************************************************)
\* What the repository serves as <artifact>.jar: an archive with the entry
\* lsp/config.yml, an archive without it, or something that is no archive.
JarKinds == {"good", "noconfig", "notzip"}

\* download_artifact_from_maven (lines 354-377) as called at line 427. A
\* False result leaves the try block without an exception (lines 428-430, 420).
Download ==
  /\ pc = "download"
  /\ IF "jar" \in root.files
       THEN pc' = "extract" /\ UNCHANGED <<root, failure>>
       ELSE \/ /\ failure' = <<"download", "URLError">>
               /\ pc' = "rollback1"
               /\ root' = root
            \/ \E j \in JarKinds :
                 /\ root' = [root EXCEPT !.files = @ \cup {"jar"}, !.jar = j, !.ver = latest.val]
                 /\ pc' = "extract"
                 /\ failure' = failure
  /\ UNCHANGED <<saved, platform, kind, latest, installed, ret, pre, hadValid, calls>>
  /\ UNCHANGED auxvars

\* _copy_lsp_config (lines 434-438)
CopyLspConfig ==
  /\ pc = "extract"
  /\ IF root.jar = "notzip" THEN root' = root /\ ProducerRaises("BadZipFile", "extract")
     ELSE IF root.jar = "noconfig" THEN root' = root /\ ProducerRaises("KeyError", "extract")
     ELSE /\ root' = [root EXCEPT !.files = @ \cup {"config.yml"}]
          /\ pc' = "store"
          /\ UNCHANGED <<failure, ret>>
  /\ UNCHANGED <<saved, platform, kind, latest, installed, pre, hadValid, calls>>
  /\ UNCHANGED auxvars


(***************************************************************************)
(* Concurrent Pypi installs of different engines in one process            *)
(***************************************************************************)
\* No install call of the single-engine specification is under way.
InstallIdle ==
  /\ root = Absent
  /\ saved = Absent
  /\ pc = "idle"
  /\ kind = "none"
  /\ latest = None
  /\ installed = Unset
  /\ failure = <<>>
  /\ ret = NoCall
  /\ pre = [root |-> Absent, saved |-> Absent]
  /\ hadValid = FALSE
  /\ calls = 0

\* Each thread is inside _unsafe_install_latest_version of its own engine,
\* on the fresh root of lines 207-209, or makes no call at all.
ThreadsInit ==
  /\ InstallIdle
  /\ MavenIdle
  /\ PypiIdle
  /\ DiscoveryIdle
  /\ JavaIdle
  /\ platform \in {"linux", "win32"}
  /\ cwd = "orig"
  /\ thr \in [Threads -> {NotCalled, Called}]
  /\ tree = EmptyTree

Goto(t, step) == thr' = [thr EXCEPT ![t].pc = step]

\* _create_venv, line 230: cwd = os.getcwd()
VenvGetcwd(t) ==
  /\ thr[t].pc = "venv_getcwd"
  /\ thr' = [thr EXCEPT ![t].pc = "venv_chdir", ![t].cwd = cwd]
  /\ UNCHANGED <<cwd, tree>>
  /\ UNCHANGED <<ivars, mvars, pvars, dvars, jvars>>

\* line 232: os.chdir(self._install_path)
VenvChdir(t) ==
  /\ thr[t].pc = "venv_chdir"
  /\ cwd' = t
  /\ Goto(t, "venv_run")
  /\ UNCHANGED tree
  /\ UNCHANGED <<ivars, mvars, pvars, dvars, jvars>>

\* lines 236-237: "python -m venv .venv" run by a shell, which creates .venv
\* in the working directory the process has at this moment.
VenvRun(t) ==
  /\ thr[t].pc = "venv_run"
  /\ tree' = [tree EXCEPT ![cwd].venv = TRUE]
  /\ Goto(t, "venv_locate")
  /\ UNCHANGED cwd
  /\ UNCHANGED <<ivars, mvars, pvars, dvars, jvars>>

\* line 238: _locate_site_packages looks under the absolute path
\* <install path>/.venv: os.listdir raises FileNotFoundError when it is not
\* there (lines 255-256), the Windows variant raises ValueError (line 252).
VenvLocate(t) ==
  /\ thr[t].pc = "venv_locate"
  /\ thr' = [thr EXCEPT ![t].pc = "venv_restore",
                        ![t].exc = IF tree[t].venv THEN "none"
                                   ELSE IF platform = "win32" THEN "ValueError"
                                   ELSE "FileNotFoundError"]
  /\ UNCHANGED <<cwd, tree>>
  /\ UNCHANGED <<ivars, mvars, pvars, dvars, jvars>>

\* As VenvRestore, changing back only when the block raised nothing.
VenvRestore_nofinally(t) ==
  /\ thr[t].pc = "venv_restore"
  /\ cwd' = IF thr[t].exc = "none" THEN thr[t].cwd ELSE cwd
  /\ Goto(t, IF thr[t].exc = "none" THEN "pip_getcwd" ELSE "except")
  /\ UNCHANGED tree
  /\ UNCHANGED <<ivars, mvars, pvars, dvars, jvars>>

\* line 240: finally os.chdir(cwd)
VenvRestore(t) ==
  /\ thr[t].pc = "venv_restore"
  /\ cwd' = thr[t].cwd
  /\ Goto(t, IF thr[t].exc = "none" THEN "pip_getcwd" ELSE "except")
  /\ UNCHANGED tree
  /\ UNCHANGED <<ivars, mvars, pvars, dvars, jvars>>

\* _install_from_pip, line 265: cwd = os.getcwd()
PipGetcwd(t) ==
  /\ thr[t].pc = "pip_getcwd"
  /\ thr' = [thr EXCEPT ![t].pc = "pip_chdir", ![t].cwd = cwd]
  /\ UNCHANGED <<cwd, tree>>
  /\ UNCHANGED <<ivars, mvars, pvars, dvars, jvars>>

\* line 267: os.chdir(self._install_path)
PipChdir(t) ==
  /\ thr[t].pc = "pip_chdir"
  /\ cwd' = t
  /\ Goto(t, "pip_run")
  /\ UNCHANGED tree
  /\ UNCHANGED <<ivars, mvars, pvars, dvars, jvars>>

\* lines 268-273: pip and its target are paths relative to the install
\* path, resolved against the working directory the process has at this
\* moment; without a pip there, run raises FileNotFoundError.
PipRun(t) ==
  /\ thr[t].pc = "pip_run"
  /\ IF tree[cwd].venv
       THEN /\ tree' = [tree EXCEPT ![cwd].pkgs = @ \cup {t}]
            /\ Goto(t, "pip_restore")
       ELSE /\ tree' = tree
            /\ thr' = [thr EXCEPT ![t].pc = "pip_restore", ![t].exc = "FileNotFoundError"]
  /\ UNCHANGED cwd
  /\ UNCHANGED <<ivars, mvars, pvars, dvars, jvars>>

\* line 275: finally os.chdir(cwd)
PipRestore(t) ==
  /\ thr[t].pc = "pip_restore"
  /\ cwd' = thr[t].cwd
  /\ Goto(t, IF thr[t].exc = "none" THEN "copy" ELSE "except")
  /\ UNCHANGED tree
  /\ UNCHANGED <<ivars, mvars, pvars, dvars, jvars>>

\* _copy_lsp_resources (lines 280-284) on the absolute site-packages path
\* of this engine, then _post_install and the return of line 214.
CopyLsp(t) ==
  /\ thr[t].pc = "copy"
  /\ IF t \in tree[t].pkgs
       THEN thr' = [thr EXCEPT ![t].pc = "done", ![t].result = "path"]
       ELSE thr' = [thr EXCEPT ![t].pc = "except", ![t].exc = "ValueError"]
  /\ UNCHANGED <<cwd, tree>>
  /\ UNCHANGED <<ivars, mvars, pvars, dvars, jvars>>

\* The exception leaves the try block of line 210: ValueError is caught at
\* line 215, the fresh root removed and None returned; FileNotFoundError
\* propagates to the caller.
Unwind(t) ==
  /\ thr[t].pc = "except"
  /\ IF thr[t].exc \in PypiCaught
       THEN /\ tree' = [tree EXCEPT ![t] = EmptyTree[t]]
            /\ thr' = [thr EXCEPT ![t].pc = "done", ![t].result = "None"]
       ELSE /\ tree' = tree
            /\ thr' = [thr EXCEPT ![t].pc = "done", ![t].result = "raise"]
  /\ UNCHANGED cwd
  /\ UNCHANGED <<ivars, mvars, pvars, dvars, jvars>>

ThreadsNext ==
  \E t \in Threads :
    \/ VenvGetcwd(t)
    \/ VenvChdir(t)
    \/ VenvRun(t)
    \/ VenvLocate(t)
    \/ VenvRestore(t)
    \/ PipGetcwd(t)
    \/ PipChdir(t)
    \/ PipRun(t)
    \/ PipRestore(t)
    \/ CopyLsp(t)
    \/ Unwind(t)

SpecThreads == ThreadsInit /\ [][ThreadsNext]_vars

(***************************************************************************)
(* Pypi installs called one after the other, with failing subprocesses     *)
(***************************************************************************)
\* No call has been made yet.
SequentialInit ==
  /\ InstallIdle
  /\ MavenIdle
  /\ PypiIdle
  /\ DiscoveryIdle
  /\ JavaIdle
  /\ platform \in {"linux", "win32"}
  /\ cwd = "orig"
  /\ thr = [t \in Threads |-> NotCalled]
  /\ tree = EmptyTree

\* install() for engine t is called while no other call is under way.
Call(t) ==
  /\ thr[t].pc = "off"
  /\ \A u \in Threads \ {t} : thr[u].pc \in {"off", "done"}
  /\ thr' = [thr EXCEPT ![t] = Called]
  /\ UNCHANGED <<cwd, tree>>
  /\ UNCHANGED <<ivars, mvars, pvars, dvars, jvars>>

\* lines 236-237: "python -m venv .venv" exits non-zero and run (check=True)
\* raises CalledProcessError.
VenvExitsNonZero(t) ==
  /\ thr[t].pc = "venv_run"
  /\ thr' = [thr EXCEPT ![t].pc = "venv_restore", ![t].exc = "CalledProcessError"]
  /\ UNCHANGED <<cwd, tree>>
  /\ UNCHANGED <<ivars, mvars, pvars, dvars, jvars>>

\* line 238: the environment has no site-packages folder (lines 252, 260).
NoSitePackages(t) ==
  /\ thr[t].pc = "venv_locate"
  /\ thr' = [thr EXCEPT ![t].pc = "venv_restore", ![t].exc = "ValueError"]
  /\ UNCHANGED <<cwd, tree>>
  /\ UNCHANGED <<ivars, mvars, pvars, dvars, jvars>>

\* lines 271-273: pip exits non-zero and check_returncode raises
\* CalledProcessError.
PipExitsNonZero(t) ==
  /\ thr[t].pc = "pip_run"
  /\ thr' = [thr EXCEPT ![t].pc = "pip_restore", ![t].exc = "CalledProcessError"]
  /\ UNCHANGED <<cwd, tree>>
  /\ UNCHANGED <<ivars, mvars, pvars, dvars, jvars>>

SequentialNext ==
  \E t \in Threads :
    \/ Call(t)
    \/ VenvGetcwd(t)
    \/ VenvChdir(t)
    \/ VenvRun(t)
    \/ VenvExitsNonZero(t)
    \/ VenvLocate(t)
    \/ NoSitePackages(t)
    \/ VenvRestore(t)
    \/ PipGetcwd(t)
    \/ PipChdir(t)
    \/ PipRun(t)
    \/ PipExitsNonZero(t)
    \/ PipRestore(t)
    \/ CopyLsp(t)
    \/ Unwind(t)

SpecSequential == SequentialInit /\ [][SequentialNext]_vars

(***************************************************************************)
(* Maven client functions on their own                                     *)
(***************************************************************************)
\* Number of download_artifact_from_maven calls, and of version elements.
MaxDownloads == 2
MaxVersions == 2

\* Element texts: findtext gives "" for an element without text.
MavenTexts == {<<>>, <<"1", ".", "0">>, <<"2", ".", "0">>}
OptTexts == {None} \cup {Str(x) : x \in MavenTexts}
TextLists == UNION {[1..n -> MavenTexts] : n \in 0..MaxVersions}
MetadataDocs ==
  {NotXml} \cup [wellformed : {TRUE}, release : OptTexts, latest : OptTexts, versions : TextLists]

\* What urlretrieve does (line 370); HTTPError is a URLError.
FetchOutcomes == {"ok", "HTTPError", "URLError"}

\* download_artifact_from_maven without the test of lines 363-365.
download_artifact_from_maven_noskip(tgt, version, outcome) ==
  IF outcome # "ok"
    THEN [ret |-> "False", target |-> tgt, fetched |-> TRUE]
    ELSE [ret |-> "True", target |-> [exists |-> TRUE, content |-> version], fetched |-> TRUE]

\* download_artifact_from_maven (lines 354-377): the value returned, the
\* target file afterwards, and whether urlretrieve was called.
download_artifact_from_maven(tgt, version, outcome) ==
  IF tgt.exists
    THEN [ret |-> "True", target |-> tgt, fetched |-> FALSE]
  ELSE IF outcome # "ok"
    THEN [ret |-> "False", target |-> tgt, fetched |-> TRUE]
    ELSE [ret |-> "True", target |-> [exists |-> TRUE, content |-> version], fetched |-> TRUE]

MavenInit ==
  /\ InstallIdle
  /\ platform = "linux"
  /\ ThreadsIdle
  /\ PypiIdle
  /\ DiscoveryIdle
  /\ JavaIdle
  /\ metadata \in MetadataDocs
  /\ resolved = Unset
  /\ target \in {NoTarget} \cup {[exists |-> TRUE, content |-> v] : v \in RegistryVersions}
  /\ dlret = "unset"
  /\ fetches = 0
  /\ dcalls = 0

\* A call of _extract_latest_release_version on the metadata.
ExtractLatestReleaseVersion ==
  /\ resolved = Unset
  /\ resolved' = _extract_latest_release_version(metadata)
  /\ UNCHANGED <<metadata, target, dlret, fetches, dcalls>>
  /\ UNCHANGED <<ivars, tvars, pvars, dvars, jvars>>

\* A call of download_artifact_from_maven for some version.
DownloadArtifact ==
  /\ dcalls < MaxDownloads
  /\ dcalls' = dcalls + 1
  /\ \E version \in RegistryVersions, outcome \in FetchOutcomes :
       LET r == download_artifact_from_maven(target, version, outcome) IN
         /\ target' = r.target
         /\ dlret' = r.ret
         /\ fetches' = IF r.fetched THEN fetches + 1 ELSE fetches
  /\ UNCHANGED <<metadata, resolved>>
  /\ UNCHANGED <<ivars, tvars, pvars, dvars, jvars>>

MavenNext == ExtractLatestReleaseVersion \/ DownloadArtifact

SpecMaven == MavenInit /\ [][MavenNext]_vars

(***************************************************************************)
(* PypiInstaller.download_artifact_from_pypi on its own                    *)
(***************************************************************************)
\* Number of download_artifact_from_pypi calls.
MaxPypiDownloads == 2

PypiNames == {<<"r", "c", "t">>, <<"a", "-", "b">>}
Extensions == {<<"w", "h", "l">>, <<"t", "a", "r">>, <<"z", "i", "p">>}

\* str.replace('-', '_') of line 167.
ReplaceDashes(name) == [i \in 1..Len(name) |-> IF name[i] = "-" THEN "_" ELSE name[i]]

\* Line 166: the suffix of the file name for an extension.
Suffix(extension) ==
  IF extension = <<"w", "h", "l">>
    THEN <<"-", "p", "y", "3", "-", "n", "o", "n", "e", "-", "a", "n", "y", ".", "w", "h", "l">>
  ELSE IF extension = <<"t", "a", "r">>
    THEN <<".", "t", "a", "r", ".", "g", "z">>
    ELSE <<".">> \o extension

\* Line 167: the file name asked from the mirror.
Filename(product_name, version, extension) ==
  ReplaceDashes(product_name) \o <<"-">> \o version \o Suffix(extension)

\* download_artifact_from_pypi (lines 164-178): urlretrieve comes first; the
\* downloaded file is moved only onto an absent target; URLError gives -1.
download_artifact_from_pypi(tgt, product_name, version, extension, outcome) ==
  IF outcome # "ok"
    THEN [ret |-> "-1", target |-> tgt]
  ELSE IF tgt.exists
    THEN [ret |-> "0", target |-> tgt]
    ELSE [ret |-> "0",
          target |-> [exists |-> TRUE, content |-> Filename(product_name, version, extension)]]

PypiInit ==
  /\ InstallIdle
  /\ platform = "linux"
  /\ ThreadsIdle
  /\ MavenIdle
  /\ DiscoveryIdle
  /\ JavaIdle
  /\ ptarget \in {NoTarget, [exists |-> TRUE, content |-> <<"o", "l", "d">>]}
  /\ pret = "unset"
  /\ purl = <<>>
  /\ pcalls = 0

\* A call of download_artifact_from_pypi.
DownloadFromPypi ==
  /\ pcalls < MaxPypiDownloads
  /\ pcalls' = pcalls + 1
  /\ \E product_name \in PypiNames, version \in RegistryVersions,
        extension \in Extensions, outcome \in FetchOutcomes :
       LET r == download_artifact_from_pypi(ptarget, product_name, version, extension, outcome) IN
         /\ purl' = Filename(product_name, version, extension)
         /\ ptarget' = r.target
         /\ pret' = r.ret
  /\ UNCHANGED <<ivars, tvars, mvars, dvars, jvars>>

PypiNext == DownloadFromPypi

SpecPypi == PypiInit /\ [][PypiNext]_vars

(***************************************************************************)
(* Discovery: the queries of TranspilerInstaller over the engines root     *)
(***************************************************************************)
\* Number of entries of the engines root.
MaxEntries == 2

Ok(v) == [tag |-> "ok", val |-> v]

\* What LSPConfig.load gives for a descriptor file: name, remorph.dialects
\* and options (a mapping from a dialect or "all" to a sequence of options).
NoConfig == [name |-> "", dialects |-> {}, options |-> <<>>]
Configs ==
  { [name |-> "Morpheus", dialects |-> {"snowflake", "tsql"},
     options |-> ("snowflake" :> <<"o1">>) @@ ("all" :> <<"o2">>)],
    [name |-> "Bladerunner", dialects |-> {"snowflake", "presto"},
     options |-> ("all" :> <<"o2", "o3">>)],
    [name |-> "Morpheus", dialects |-> {"presto"},
     options |-> ("presto" :> <<>>)],
    [name |-> "Plain", dialects |-> {}, options |-> <<>>] }
Dialects == {"snowflake", "tsql", "presto", "oracle"}
EngineNames == {"Morpheus", "Bladerunner", "Plain", "Ghost"}

\* An entry of the engines root: a plain file; a directory without lib, or
\* without lib/config.yml, or with a directory of that name; a directory
\* whose lib/config.yml is a file that LSPConfig.load parses, rejects with
\* ValueError, or fails on with another exception.
EntryKinds == {"file", "nolib", "noconfig", "configdir", "invalid", "notyaml", "valid"}
Entries ==
  [kind : EntryKinds \ {"valid"}, config : {NoConfig}] \cup [kind : {"valid"}, config : Configs]
Listings ==
  {NoListing} \cup
    [exists : {TRUE}, entries : UNION {[1..n -> Entries] : n \in 0..MaxEntries}]

\* LSPConfig.load(config_path), called at line 135.
LSPConfig_load(entry) ==
  IF entry.kind = "valid" THEN Ok(entry.config)
  ELSE IF entry.kind = "invalid" THEN Raise("ValueError")
  ELSE Raise("YAMLError")

\* _transpiler_config (lines 127-138): None unless the entry is a directory
\* with a lib directory and a regular file lib/config.yml; ValueError of
\* the load is logged and gives None.
_transpiler_config(entry) ==
  IF entry.kind \in {"file", "nolib", "noconfig", "configdir"} THEN None
  ELSE LET loaded == LSPConfig_load(entry) IN
    IF loaded.tag = "raise" /\ loaded.val = <<"ValueError">> THEN None ELSE loaded

\* _all_transpiler_configs (lines 117-125): the configs in listing order,
\* or the exception that ends the iteration.
RECURSIVE ConfigsOf(_)
ConfigsOf(entries) ==
  IF entries = <<>> THEN Ok(<<>>)
  ELSE LET config == _transpiler_config(Head(entries)) IN
    IF config.tag = "raise" THEN config
    ELSE LET rest == ConfigsOf(Tail(entries)) IN
      IF rest.tag = "raise" THEN rest
      ELSE IF config.tag = "None" THEN rest
      ELSE Ok(<<config.val>> \o rest.val)

_all_transpiler_configs(dir) ==
  IF dir.exists THEN ConfigsOf(dir.entries) ELSE Ok(<<>>)

\* all_transpiler_configs (lines 81-84): the dict comprehension keeps, for
\* each name, the last config of that name.
LastNamed(configs, name) ==
  configs[CHOOSE i \in 1..Len(configs) :
            /\ configs[i].name = name
            /\ \A j \in (i + 1)..Len(configs) : configs[j].name # name]

all_transpiler_configs(dir) ==
  LET all_configs == _all_transpiler_configs(dir) IN
    IF all_configs.tag = "raise" THEN all_configs
    ELSE Ok([name \in {all_configs.val[i].name : i \in 1..Len(all_configs.val)} |->
               LastNamed(all_configs.val, name)])

\* all_transpiler_names (lines 86-89)
all_transpiler_names(dir) ==
  LET all_configs == all_transpiler_configs(dir) IN
    IF all_configs.tag = "raise" THEN all_configs ELSE Ok(DOMAIN all_configs.val)

\* all_dialects (lines 91-96): the union over the configs of the scan itself.
all_dialects(dir) ==
  LET all_configs == _all_transpiler_configs(dir) IN
    IF all_configs.tag = "raise" THEN all_configs
    ELSE Ok(UNION {all_configs.val[i].dialects : i \in 1..Len(all_configs.val)})

\* transpilers_with_dialect (lines 98-101): over the values of the dict.
transpilers_with_dialect(dir, dialect) ==
  LET all_configs == all_transpiler_configs(dir) IN
    IF all_configs.tag = "raise" THEN all_configs
    ELSE Ok({name \in DOMAIN all_configs.val : dialect \in all_configs.val[name].dialects})

\* dict.get(key, default)
Get(dict, key, default) == IF key \in DOMAIN dict THEN dict[key] ELSE default

\* transpiler_config_options (lines 110-115)
transpiler_config_options(dir, transpiler_name, source_dialect) ==
  LET all_configs == all_transpiler_configs(dir) IN
    IF all_configs.tag = "raise" THEN all_configs
    ELSE IF transpiler_name \notin DOMAIN all_configs.val THEN Ok(<<>>)
    ELSE LET config == all_configs.val[transpiler_name] IN
      Ok(Get(config.options, source_dialect, Get(config.options, "all", <<>>)))

DiscoveryInit ==
  /\ InstallIdle
  /\ platform = "linux"
  /\ ThreadsIdle
  /\ MavenIdle
  /\ PypiIdle
  /\ JavaIdle
  /\ listing \in Listings
  /\ query = NoQuery

Answer(fn, args, result) == [fn |-> fn, args |-> args, result |-> result]

QueryNames ==
  /\ query' = Answer("names", <<>>, all_transpiler_names(listing))
  /\ UNCHANGED listing
  /\ UNCHANGED <<ivars, tvars, mvars, pvars, jvars>>

QueryDialects ==
  /\ query' = Answer("dialects", <<>>, all_dialects(listing))
  /\ UNCHANGED listing
  /\ UNCHANGED <<ivars, tvars, mvars, pvars, jvars>>

QueryWithDialect ==
  /\ \E dialect \in Dialects :
       query' = Answer("with_dialect", <<dialect>>, transpilers_with_dialect(listing, dialect))
  /\ UNCHANGED listing
  /\ UNCHANGED <<ivars, tvars, mvars, pvars, jvars>>

QueryOptions ==
  /\ \E name \in EngineNames, dialect \in Dialects :
       query' = Answer("options", <<name, dialect>>,
                       transpiler_config_options(listing, name, dialect))
  /\ UNCHANGED listing
  /\ UNCHANGED <<ivars, tvars, mvars, pvars, jvars>>

DiscoveryNext == QueryNames \/ QueryDialects \/ QueryWithDialect \/ QueryOptions

SpecDiscovery == DiscoveryInit /\ [][DiscoveryNext]_vars

(***************************************************************************)
(* Discovery between the install calls of one process                      *)
(***************************************************************************)
\* The descriptor the lsp/config.yml of the engine "demo" declares.
Descriptor == [name |-> "demo", dialects |-> {"snowflake"}, options |-> <<>>]

\* What _transpiler_config sees of a directory of the engines root.
EntryOf(dir) ==
  IF ~dir.lib THEN [kind |-> "nolib", config |-> NoConfig]
  ELSE IF "config.yml" \notin dir.files THEN [kind |-> "noconfig", config |-> NoConfig]
  ELSE [kind |-> "valid", config |-> Descriptor]

\* The engines root as os.listdir shows it: the root and the backup
\* directory of the engine, whichever exist.
EnginesRoot(r, s) ==
  [exists |-> r.exists \/ s.exists,
   entries |-> (IF r.exists THEN <<EntryOf(r)>> ELSE <<>>)
               \o (IF s.exists THEN <<EntryOf(s)>> ELSE <<>>)]

\* all_transpiler_names (lines 86-89) called between two install calls:
\* every call scans the engines root again (lines 83, 117-125).
DiscoverNames ==
  /\ pc = "idle"
  /\ query' = Answer("names", <<>>, all_transpiler_names(EnginesRoot(root, saved)))
  /\ UNCHANGED ivars
  /\ UNCHANGED <<tvars, mvars, pvars, listing, jvars>>

Next ==
  \/ ResolvePypi
  \/ ResolveMaven
  \/ CheckVersions
  \/ ClearStaleBackup
  \/ BackupExisting
  \/ MakeRoot
  \/ MakeLib
  \/ CreateVenv
  \/ InstallFromPip
  \/ CopyLspResources
  \/ PostInstall
  \/ RunCustomInstaller
  \/ Download
  \/ CopyLspConfig
  \/ StoreProductState
  \/ Commit
  \/ RemoveFresh
  \/ RestoreBackup
  \/ Interrupt
  \/ DiscoverNames

Spec == Init /\ [][Next]_vars

(***************************************************************************)
(* Installs of engine A next to an installed engine named "A-saved"        *)
(***************************************************************************)
\* The engines root holds an engine whose name is A followed by "-saved":
\* its EngineRoot is the path the installers of A use as backup path
\* (lines 203, 402), so the variable saved is that engine's directory.
SiblingInit ==
  /\ root \in {Absent} \cup {MavenInstall(v) : v \in RegistryVersions}
  /\ saved \in {MavenInstall(v) : v \in RegistryVersions}
  /\ platform \in {"linux", "win32"}
  /\ pc = "idle"
  /\ kind = "none"
  /\ latest = None
  /\ installed = [tag |-> "unset", val |-> <<>>]
  /\ failure = <<>>
  /\ ret = NoCall
  /\ pre = [root |-> root, saved |-> saved]
  /\ hadValid = IsValidInstall(root)
  /\ calls = 0
  /\ ThreadsIdle
  /\ MavenIdle
  /\ PypiIdle
  /\ DiscoveryIdle
  /\ JavaIdle

SpecSibling == SiblingInit /\ [][Next]_vars

(***************************************************************************)
(* Version records: _store_product_state, then get_installed_version       *)
(***************************************************************************)
MaxVersionLen == 3
VersionChars == {"v", "1", "."}
VersionStrings == UNION {[1..n -> VersionChars] : n \in 0..MaxVersionLen}

\* A fresh EngineRoot and a version string to record in it.
RecordInit ==
  /\ root = EmptyDir
  /\ saved = Absent
  /\ platform \in {"linux", "win32"}
  /\ pc = "idle"
  /\ kind = "none"
  /\ latest \in {Str(v) : v \in VersionStrings}
  /\ installed = Unset
  /\ failure = <<>>
  /\ ret = NoCall
  /\ pre = [root |-> root, saved |-> saved]
  /\ hadValid = FALSE
  /\ calls = 0
  /\ ThreadsIdle
  /\ MavenIdle
  /\ PypiIdle
  /\ DiscoveryIdle
  /\ JavaIdle

\* _store_product_state(product_path, version) (lines 140-148)
WriteRecord ==
  /\ root.state = NoState
  /\ root' = [root EXCEPT !.state = VersionData(latest.val)]
  /\ UNCHANGED <<saved, platform, pc, kind, latest, installed, failure, ret, pre, hadValid, calls>>
  /\ UNCHANGED auxvars

\* get_installed_version(product_name) (lines 68-79)
ReadRecord ==
  /\ installed' = get_installed_version(root)
  /\ UNCHANGED <<root, saved, platform, pc, kind, latest, failure, ret, pre, hadValid, calls>>
  /\ UNCHANGED auxvars

RecordNext == WriteRecord \/ ReadRecord

SpecRecord == RecordInit /\ [][RecordNext]_vars

(***************************************************************************)
(* WorkspaceInstaller.install_morpheus and get_java_version                *)
(***************************************************************************)
\* Version strings "java -version" prints between the quotes, split at the
\* dots: 1.6.0, 1.7.0, 1.8.0, 9.0.4, 10.0.2, 11.0.2, 17.0.1, 21.0.1, the
\* forms without minor component 11, 17 and 21, and the empty string.
JavaVersions ==
  {<<<<"1">>, <<"6">>, <<"0">>>>, <<<<"1">>, <<"7">>, <<"0">>>>, <<<<"1">>, <<"8">>, <<"0">>>>,
   <<<<"9">>, <<"0">>, <<"4">>>>, <<<<"1", "0">>, <<"0">>, <<"2">>>>,
   <<<<"1", "1">>, <<"0">>, <<"2">>>>, <<<<"1", "7">>, <<"0">>, <<"1">>>>,
   <<<<"2", "1">>, <<"0">>, <<"1">>>>,
   <<<<"1", "1">>>>, <<<<"1", "7">>>>, <<<<"2", "1">>>>, <<<<>>>>}

\* What running ["java", "-version"] gives: no java executable, or an exit
\* code and a stderr text, of which the model keeps whether it holds
\* " version ", an opening and a closing quote, and the quoted version.
JavaOutputs ==
  {[NoJava EXCEPT !.exit = "notfound"]}
  \cup [exit : {"zero", "nonzero"}, marker : BOOLEAN, open : BOOLEAN, close : BOOLEAN,
        version : JavaVersions]

IntValue(n) == [tag |-> "int", val |-> n]

\* int(text) for a text of decimal digits; int("") raises ValueError.
Digit == ("0" :> 0) @@ ("1" :> 1) @@ ("2" :> 2) @@ ("3" :> 3) @@ ("4" :> 4)
         @@ ("5" :> 5) @@ ("6" :> 6) @@ ("7" :> 7) @@ ("8" :> 8) @@ ("9" :> 9)
RECURSIVE int(_)
int(text) ==
  IF text = <<>> THEN 0
  ELSE 10 * int(SubSeq(text, 1, Len(text) - 1)) + Digit[text[Len(text)]]

\* get_java_version (lines 504-523)
get_java_version(out) ==
  IF out.exit = "notfound" THEN Raise("FileNotFoundError")
  ELSE IF out.exit # "zero" THEN None
  ELSE IF ~out.marker THEN None
  ELSE IF ~out.open THEN None
  ELSE IF ~out.close THEN None
  ELSE IF Len(out.version) < 2 THEN Raise("IndexError")
  ELSE IF out.version[1] \o out.version[2] = <<>> THEN Raise("ValueError")
  ELSE IntValue(int(out.version[1] \o out.version[2]))

\* install_morpheus (lines 491-502): None < 110 raises TypeError.
install_morpheus(out) ==
  LET java_version == get_java_version(out) IN
  IF java_version.tag = "raise" THEN [tag |-> "raise", val |-> java_version.val]
  ELSE IF java_version.tag = "None" THEN [tag |-> "raise", val |-> <<"TypeError">>]
  ELSE IF java_version.val < 110 THEN [tag |-> "warned", val |-> <<>>]
  ELSE [tag |-> "install", val |-> <<>>]

JavaInit ==
  /\ InstallIdle
  /\ platform \in {"linux", "win32"}
  /\ ThreadsIdle
  /\ MavenIdle
  /\ PypiIdle
  /\ DiscoveryIdle
  /\ java \in JavaOutputs
  /\ morpheus = Unset

InstallMorpheus ==
  /\ morpheus' = install_morpheus(java)
  /\ UNCHANGED java
  /\ UNCHANGED <<ivars, tvars, mvars, pvars, dvars>>

JavaNext == InstallMorpheus

SpecJava == JavaInit /\ [][JavaNext]_vars

(***************************************************************************)
(* Properties                                                              *)
(***************************************************************************)
\* The last call returned or raised (it was not interrupted).
CallCompleted == pc = "idle" /\ ret.tag \in {"None", "path", "raise"}

\* C1: after any install call completes, by returning or by raising, the
\* engine is either newly installed (complete root of the resolved version, no
\* backup directory) or root and backup are exactly as before the call.
C1_InstallIsAtomic ==
  CallCompleted =>
    \/ /\ ret.tag = "path"
       /\ IsValidInstall(root)
       /\ root.state = JsonObject(JString(<<"v">> \o latest.val))
       /\ ~saved.exists
    \/ /\ root = pre.root
       /\ saved = pre.saved

\* C2: when the root existed before the call and the producer failed, then
\* after the call the root is identical to what it was and no backup remains.
C2_FailedProducerRestoresRoot ==
  (CallCompleted /\ failure # <<>> /\ pre.root.exists) =>
    /\ root = pre.root
    /\ ~saved.exists

\* The producer failures C3 lists: download failure, missing file or folder,
\* subprocess non-zero exit, malformed artifact.
ListedFailures == {"URLError", "ValueError", "KeyError", "CalledProcessError", "BadZipFile"}

\* C3: every listed producer failure ends in a rollback and a None result: no
\* exception reaches the caller and the root is as it was before the call.
C3_ProducerFailureReturnsNone ==
  (CallCompleted /\ failure # <<>> /\ failure[2] \in ListedFailures) =>
    /\ ret = Return("None", <<>>, "rollback")
    /\ root = pre.root

\* C4: when the recorded version is "v" + the resolved latest version, the call
\* changes neither root nor backup at any step and returns None.
C4_UpToDateIsNoOp ==
  (/\ latest.tag = "str"
   /\ pre.root.exists
   /\ pre.root.state = JsonObject(JString(<<"v">> \o latest.val))) =>
    /\ pc \in {"check", "idle"}
    /\ root = pre.root
    /\ saved = pre.saved
    /\ (pc = "idle" /\ ret.tag # "interrupted") => ret = Return("None", <<>>, "check")

\* A second call found the version committed by the first one and returned None.
C4_Witness ==
  /\ pc = "idle"
  /\ ret = Return("None", <<>>, "check")
  /\ calls = 2
  /\ latest.tag = "str"
  /\ root.venv = "site"
  /\ root.state = JsonObject(JString(<<"v">> \o latest.val))
  /\ root = pre.root

\* C5: after an install that returned a path, lib/config.yml exists,
\* state/version.json exists, get_installed_version gives exactly the version
\* that was installed, and no backup directory remains.
C5_SuccessfulInstallComplete ==
  (pc = "idle" /\ ret.tag = "path") =>
    /\ root.exists
    /\ root.lib
    /\ "config.yml" \in root.files
    /\ root.state.form = "object"
    /\ latest.tag = "str"
    /\ get_installed_version(root) = latest
    /\ ~saved.exists

\* An upgrade of an existing root returned a path.
C5_Witness ==
  /\ pc = "idle"
  /\ ret.tag = "path"
  /\ pre.root.exists
  /\ root.ver # pre.root.ver

\* C6: when the latest version cannot be resolved, the lookup gives None
\* without raising and install returns None with root and backup untouched.
C6_UnresolvedLatestIsAbsent ==
  (pc = "idle" /\ ret.at = "resolve") =>
    /\ latest = None
    /\ ret.tag = "None"
    /\ root = pre.root
    /\ saved = pre.saved

\* C7: for a version.json whose object has no "version" entry, or an empty
\* one, get_installed_version gives None and does not raise.
C7_MissingVersionFieldIsAbsent ==
  (/\ installed.tag # "unset"
   /\ pre.root.exists
   /\ pre.root.state.form = "object"
   /\ pre.root.state.version \in {Missing, JNull, JString(<<>>)}) =>
    installed = None

\* get_installed_version ran on a record without a "version" entry.
C7_Witness ==
  /\ installed = None
  /\ pre.root.exists
  /\ pre.root.state = JsonObject(Missing)

\* The shape "v" followed by digits (and dots) of a stored version.
Digits == {"0", "1", "2", "3", "4", "5", "6", "7", "8", "9", "."}
WellShaped(dir) ==
  /\ HasVersionRecord(dir)
  /\ Len(dir.state.version.s) >= 2
  /\ \A i \in 2..Len(dir.state.version.s) : dir.state.version.s[i] \in Digits

\* C8: get_installed_version gives None, never an error, for a record that
\* is missing, unreadable, not well-formed or not of the shape "v" + digits,
\* and the stored version without its "v" in every other case.
C8_InstalledVersionNeverRaises ==
  installed.tag # "unset" =>
    installed = (IF WellShaped(pre.root) THEN Str(Tail(pre.root.state.version.s)) ELSE None)

\* C9: once a complete install existed at the root path, root and backup
\* are never both absent, in any intermediate state.
C9_NeverBothAbsent ==
  hadValid => (root.exists \/ saved.exists)

\* C10: a complete previous install held in the backup directory is not
\* deleted before the new install at the root path is complete.
C10_ValidBackupKeptUntilCommit ==
  [][(IsValidInstall(saved) /\ ~saved'.exists /\ root' # saved) => IsValidInstall(root)]_vars

\* C11: a root left by an interrupted attempt, created but without its
\* state directory, reads as not installed, and the next install call is
\* not stopped by the leftover directories: it neither fails to move the
\* leftover aside nor to create the fresh root.
C11_LeftoverIsReplaceable ==
  (/\ installed.tag # "unset"
   /\ pre.root.exists
   /\ pre.root.state = NoState) =>
    /\ installed = None
    /\ ~(pc = "idle" /\ ret.tag = "raise" /\ ret.at \in {"backup", "mkroot"})

\* C12: when no call is in progress, a root directory that the last call
\* returned from or raised out of, and that this call wrote, is complete:
\* it has lib, lib/config.yml and a version record.
C12_SteadyRootIsComplete ==
  (CallCompleted /\ root.exists /\ root # pre.root) => IsValidInstall(root)

\* The steps of a call before the fresh root exists.
BeforePrepared == {"idle", "resolve", "check", "clear", "backup", "mkroot"}

\* C13: a call that created the fresh root ends either committed or rolled
\* back, never anywhere in between.
C13_EndsCommittedOrRolledBack ==
  (CallCompleted /\ ret.at \notin BeforePrepared) => ret.at \in {"commit", "rollback"}

\* C14: when writing the version record fails, the attempt is rolled back:
\* the call returns None, the fresh root is gone and the previous root is
\* back at the root path.
C14_FailedRecordWriteRollsBack ==
  (CallCompleted /\ failure # <<>> /\ failure[1] = "store") =>
    /\ ret.tag = "None"
    /\ root = pre.root
    /\ ~saved.exists

\* state/version.json exists in the directory.
HasRecordFile(dir) == dir.exists /\ dir.state.form \notin {"nostate", "nofile"}

\* A step that writes under the state directory of the root in place.
WritesState == root.exists /\ root'.exists /\ root'.state # root.state

\* C15: the version record is written at most once per attempt, only into a
\* root that has no state directory yet and whose lib already holds
\* config.yml, for Pypi only after the install script, if any, has finished
\* successfully; and no directory ever holds state/version.json without
\* lib/config.yml.
C15_RecordWrittenLast ==
  /\ [](\A dir \in {root, saved} :
          HasRecordFile(dir) => (dir.lib /\ "config.yml" \in dir.files))
  /\ [][/\ WritesState =>
            /\ pc = "store"
            /\ root.state = NoState
            /\ root.lib
            /\ "config.yml" \in root.files
        /\ (pc' = "store" /\ kind = "pypi" /\ InstallScript \in root.files) =>
            pc = "script"]_vars

\* A Pypi install whose package ships an install script has just written
\* its version record.
C15_Witness ==
  /\ pc = "commit"
  /\ kind = "pypi"
  /\ InstallScript \in root.files
  /\ "config.yml" \in root.files
  /\ root.state = JsonObject(JString(<<"v">> \o latest.val))

\* The number a version of decimal digits stands for.
DecimalDigits == <<"0", "1", "2", "3", "4", "5", "6", "7", "8", "9">>
DigitValue(d) == (CHOOSE i \in 1..Len(DecimalDigits) : DecimalDigits[i] = d) - 1
RECURSIVE VersionNumber(_)
VersionNumber(v) ==
  IF v = <<>> THEN 0
  ELSE 10 * VersionNumber(SubSeq(v, 1, Len(v) - 1)) + DigitValue(v[Len(v)])
Newer(a, b) == VersionNumber(a) > VersionNumber(b)

\* The call went past the version check: an install is attempted.
Attempted ==
  \/ pc \notin {"idle", "check"}
  \/ pc = "idle" /\ ret.at \notin {"idle", "resolve", "check"}

\* C16 as stated: an install is attempted over an installed version only
\* when the latest version of the registry is newer than the installed one.
C16_InstallOnlyWhenNewer ==
  (Attempted /\ installed.tag = "str" /\ installed.val \in RegistryVersions) =>
    Newer(latest.val, installed.val)

\* C16, amended: an install is attempted only when the latest version of the
\* registry differs from the installed version or nothing is installed; when
\* the installed version is the same as the latest one, the call returns
\* None and the existing install is left in place.
C16_InstallOnlyWhenDifferent ==
  /\ Attempted =>
       /\ latest.tag = "str"
       /\ installed.tag \in {"None", "str"}
       /\ installed # latest
  /\ (installed.tag = "str" /\ installed = latest) =>
       /\ pc = "idle"
       /\ ret = Return("None", <<>>, "check")
       /\ root = pre.root
       /\ saved = pre.saved

\* An install over a newer installed version has returned a path.
C16_Witness ==
  /\ pc = "idle"
  /\ ret.tag = "path"
  /\ installed = Str(<<"2">>)
  /\ latest = Str(<<"1">>)
  /\ root.state = JsonObject(JString(<<"v", "1">>))

\* What a Pypi install of engine t leaves under its install path when it
\* runs alone: its .venv with its own package.
InstalledAlone(t) == [venv |-> TRUE, pkgs |-> {t}]

\* C17: when concurrent install calls for different engines have all ended,
\* each has the result and the directory tree it has when run alone, no
\* other directory was written, and the working directory of the process
\* is the one it was before the calls.
C17_ConcurrentInstallsIndependent ==
  (\A t \in Threads : thr[t].pc \in {"off", "done"}) =>
    /\ cwd = "orig"
    /\ tree["orig"] = EmptyTree["orig"]
    /\ \A t \in Threads :
         IF thr[t].pc = "done"
           THEN thr[t].result = "path" /\ tree[t] = InstalledAlone(t)
           ELSE tree[t] = EmptyTree[t]

\* C18: for well-formed metadata the resolved version is the text of
\* versioning/release when that element is present, else the text of
\* versioning/latest when present, else the text of the last version
\* element, and None when none of the three is present.
C18_ReleaseThenLatestThenLast ==
  (resolved # Unset /\ metadata.wellformed) =>
    /\ metadata.release # None => resolved = metadata.release
    /\ (metadata.release = None /\ metadata.latest # None) => resolved = metadata.latest
    /\ (metadata.release = None /\ metadata.latest = None /\ metadata.versions # <<>>) =>
         resolved = Str(metadata.versions[Len(metadata.versions)])
    /\ (metadata.release = None /\ metadata.latest = None /\ metadata.versions = <<>>) =>
         resolved = None

\* Resolution ran on metadata with all three present and different.
C18_Witness ==
  /\ metadata.wellformed
  /\ metadata.release = Str(<<"1", ".", "0">>)
  /\ metadata.latest = Str(<<"2", ".", "0">>)
  /\ metadata.versions = <<<<"2", ".", "0">>, <<>>>>
  /\ resolved = Str(<<"1", ".", "0">>)

\* <versioning><versions><version>1.0</version><version>2.0</version>
\* </versions></versioning>
OnlyVersions ==
  [wellformed |-> TRUE, release |-> None, latest |-> None,
   versions |-> <<<<"1", ".", "0">>, <<"2", ".", "0">>>>]

\* C19: metadata with the versions 1.0 and 2.0 and neither release nor
\* latest resolves to "2.0"; without release and latest, a non-empty list
\* of versions resolves to its last entry, never to None.
C19_LastListedVersion ==
  /\ (resolved # Unset /\ metadata = OnlyVersions) => resolved = Str(<<"2", ".", "0">>)
  /\ (/\ resolved # Unset
      /\ metadata.wellformed
      /\ metadata.release = None
      /\ metadata.latest = None
      /\ metadata.versions # <<>>) =>
       /\ resolved.tag = "str"
       /\ resolved.val = metadata.versions[Len(metadata.versions)]

\* Resolution ran on the metadata of the example.
C19_Witness ==
  /\ metadata = OnlyVersions
  /\ resolved = Str(<<"2", ".", "0">>)

\* C20: a download onto an existing target returns True, fetches nothing
\* and leaves the target as it is; onto an absent target it returns True
\* only with the fetched file at the target, and False, with the target
\* still absent, when the fetch fails; it never raises.
C20_DownloadIsIdempotent ==
  [][dcalls' = dcalls + 1 =>
       /\ dlret' \in {"True", "False"}
       /\ target.exists =>
            (dlret' = "True" /\ fetches' = fetches /\ target' = target)
       /\ ~target.exists =>
            /\ fetches' = fetches + 1
            /\ dlret' = "True" => target'.exists
            /\ dlret' = "False" => ~target'.exists]_vars

\* A second download found the file the first one had fetched.
C20_Witness ==
  /\ dcalls = 2
  /\ fetches = 1
  /\ dlret = "True"
  /\ target.exists

\* C21: download_artifact_from_pypi leaves an existing target as it is and
\* returns 0 for it; a file appears at the target only when there was none,
\* and it is the file asked for; every call returns 0 or a non-zero status,
\* and after 0 the target exists.
C21_PypiDownloadKeepsExisting ==
  [][pcalls' = pcalls + 1 =>
       /\ pret' \in {"0", "-1"}
       /\ ptarget.exists => (ptarget' = ptarget /\ pret' = "0")
       /\ (~ptarget.exists /\ ptarget'.exists) => ptarget'.content = purl'
       /\ pret' = "0" => ptarget'.exists]_vars

\* The entries of the engines root whose lib/config.yml parses, and those
\* whose lib/config.yml is a file that does not parse.
ParsedEntries == {i \in 1..Len(listing.entries) : listing.entries[i].kind = "valid"}
UnparsableEntries ==
  {i \in 1..Len(listing.entries) : listing.entries[i].kind \in {"invalid", "notyaml"}}
ParsedNames == {listing.entries[i].config.name : i \in ParsedEntries}

\* C22: with an unparsable lib/config.yml in the engines root,
\* all_transpiler_names does not raise, leaves that directory out and still
\* returns every sibling with a valid descriptor, in any listing order and
\* for any kind of parse failure.
C22_UnparsableConfigIsSkipped ==
  (query.fn = "names" /\ UnparsableEntries # {}) =>
    /\ query.result.tag = "ok"
    /\ query.result.val = ParsedNames

\* C23: all_transpiler_names is exactly the set of the descriptor names of
\* the entries that are directories with a lib directory and a regular file
\* lib/config.yml that parses; an absent engines root gives the empty set.
C23_NamesAreParsedDescriptors ==
  query.fn = "names" =>
    /\ query.result.tag = "ok"
    /\ query.result.val = (IF listing.exists THEN ParsedNames ELSE {})

\* C24: all_dialects is the union of the dialects of the discovered engines,
\* and transpilers_with_dialect(d) the set of names of the discovered
\* engines whose dialects contain d.
C24_DialectViews ==
  /\ query.fn = "dialects" =>
       /\ query.result.tag = "ok"
       /\ query.result.val = UNION {listing.entries[i].config.dialects : i \in ParsedEntries}
  /\ query.fn = "with_dialect" =>
       /\ query.result.tag = "ok"
       /\ query.result.val =
            {listing.entries[i].config.name :
               i \in {j \in ParsedEntries : query.args[1] \in listing.entries[j].config.dialects}}

\* The options a descriptor declares for a dialect: its own entry, else the
\* entry "all", else none.
Declared(config, dialect) ==
  IF dialect \in DOMAIN config.options THEN config.options[dialect]
  ELSE IF "all" \in DOMAIN config.options THEN config.options["all"]
  ELSE <<>>

\* C25: transpiler_config_options(engine, dialect) is what the engine's
\* descriptor declares for the dialect, else what it declares under "all",
\* else the empty sequence; for a name that is not installed it is the
\* empty sequence, and the call does not raise.
C25_OptionsWithFallback ==
  query.fn = "options" =>
    /\ query.result.tag = "ok"
    /\ IF query.args[1] \in ParsedNames
         THEN \E i \in ParsedEntries :
                /\ listing.entries[i].config.name = query.args[1]
                /\ query.result.val = Declared(listing.entries[i].config, query.args[2])
         ELSE query.result.val = <<>>

\* C26: a discovery query is never stale: asked after a committed install
\* it names the new engine (and the installed version is the registry's),
\* asked after a rolled-back install it gives what a query gave before the
\* attempt; from an empty engines root a Maven install of "demo" gives
\* all_transpiler_names() = {"demo"}.
C26_DiscoveryIsNeverStale ==
  (pc = "idle" /\ query.fn = "names") =>
    /\ ret.at = "commit" =>
         /\ query.result = Ok({Descriptor.name})
         /\ get_installed_version(root) = Str(latest.val)
    /\ ret.at = "rollback" =>
         query.result = all_transpiler_names(EnginesRoot(pre.root, pre.saved))

\* C27: MavenInstaller removes a leftover backup directory before it renames
\* the root to the backup path: the rename finds no backup, never fails, and
\* the call goes on to create the fresh root with the previous root as backup.
C27_StaleBackupCleared ==
  kind = "maven" =>
    /\ pc = "backup" => ~saved.exists
    /\ ~(pc = "idle" /\ ret.tag = "raise" /\ ret.at \in {"clear", "backup", "mkroot"})
    /\ pc = "mkroot" => (~root.exists /\ saved = pre.root)

\* A Maven call that started with a root and a leftover backup has renamed
\* the root to the backup path.
C27_Witness ==
  /\ kind = "maven"
  /\ pc = "mkroot"
  /\ pre.root.exists
  /\ pre.saved.exists
  /\ pre.saved.lib

\* The failures of the Pypi producer the installer checks for: a non-zero
\* exit of the environment creation or of the package installer, no
\* site-packages folder, no lsp folder, no lib/config.yml.
StructuralFailures ==
  {<<"venv", "CalledProcessError">>, <<"venv", "ValueError">>,
   <<"pip", "CalledProcessError">>,
   <<"copy", "ValueError">>, <<"post", "ValueError">>}

HasScript ==
  \/ platform = "win32" /\ "installer.ps1" \in root.files
  \/ platform # "win32" /\ "installer.sh" \in root.files

\* C29: the Pypi producer creates the environment, runs the package
\* installer, copies the lsp resources, verifies config.yml, runs the install
\* script and writes the VersionRecord, in this order; the script of the
\* platform runs if and only if lib holds it, after config.yml was verified
\* and before the record is written, and its non-zero exit starts the rollback.
C29_PypiStepOrder ==
  [][kind = "pypi" =>
       /\ (pc' = "pip" /\ pc # "pip") => pc = "venv"
       /\ (pc' = "copy" /\ pc # "copy") => pc = "pip"
       /\ (pc' = "post" /\ pc # "post") => pc = "copy"
       /\ (pc' = "script" /\ pc # "script") =>
            (pc = "post" /\ "config.yml" \in root.files /\ HasScript)
       /\ (pc' = "store" /\ pc # "store") =>
            \/ pc = "script"
            \/ pc = "post" /\ "config.yml" \in root.files /\ ~HasScript
       /\ (pc' = "commit" /\ pc # "commit") => (pc = "store" /\ root'.state # NoState)
       /\ (pc # "store" /\ root.exists /\ root'.exists) => root'.state = root.state
       /\ (pc = "script" /\ failure' = <<"script", "CalledProcessError">>) =>
            (pc' = "rollback1" /\ root.state = NoState)]_vars

\* The install script of a Pypi call has run and the VersionRecord is about
\* to be written.
C29_Witness ==
  /\ kind = "pypi"
  /\ pc = "store"
  /\ HasScript
  /\ root.state = NoState

\* C30: in a Maven call a failed download, an archive without lsp/config.yml
\* and a file that is no archive each lead to the rollback with no
\* VersionRecord written; after a committed call lib holds the jar and
\* config.yml and nothing else.
C30_MavenFailureRollsBack ==
  kind = "maven" =>
    /\ failure \in {<<"download", "URLError">>, <<"extract", "KeyError">>,
                    <<"extract", "BadZipFile">>} =>
         /\ pc \in {"rollback1", "rollback2", "idle"}
         /\ pc = "rollback1" => (root.exists /\ root.state = NoState)
         /\ pc = "idle" => (ret = Return("None", <<>>, "rollback") \/ ret.tag = "interrupted")
    /\ (pc = "idle" /\ ret.at = "commit") =>
         (root.lib /\ root.files = {"jar", "config.yml"})

\* C31: an install call for engine A leaves the EngineRoot of every other
\* engine as it was, also of the engine named A followed by "-saved": its
\* directory is the same after the call as before it.
C31_OtherEngineUntouched ==
  CallCompleted => saved = pre.saved

\* C32: whenever an install call returns normally, with a path or with None,
\* no backup directory exists for the engine, whatever the state before the
\* call was.
C32_NoBackupAfterReturn ==
  (pc = "idle" /\ ret.tag \in {"path", "None"}) => ~saved.exists

\* C32 (amended): whenever an install call that resolved a version other
\* than the installed one returns normally, with a path or with None, no
\* backup directory exists for the engine, whatever the state before the
\* call was.
C32_NoBackupAfterInstallReturn ==
  (pc = "idle" /\ ret.tag \in {"path", "None"} /\ ret.at \notin {"resolve", "check"}) =>
    ~saved.exists

\* A call that started with a root and a leftover backup has committed.
C32_Witness ==
  /\ pc = "idle"
  /\ ret.tag = "path"
  /\ pre.root.exists
  /\ pre.saved.exists
  /\ pre.saved.lib
  /\ ~saved.exists

\* C33: the working directory of the process is the same after a Pypi
\* install call as before it, when the call succeeded and when the
\* environment creation or the package installer failed; between the two
\* blocks that change into lib it is the same as well.
C33_WorkingDirectoryRestored ==
  (\A t \in Threads :
     thr[t].pc \in {"off", "venv_getcwd", "pip_getcwd", "copy", "except", "done"}) =>
    cwd = "orig"

\* A call whose package installer exited non-zero has ended.
C33_Witness ==
  \E t \in Threads :
    /\ thr[t].pc = "done"
    /\ thr[t].exc = "CalledProcessError"
    /\ tree[t] = EmptyTree[t]
    /\ thr[t].result = "None"
    /\ cwd = "orig"

\* C34: for every content of the engines root, also with several
\* directories whose descriptors declare the same name, a dialect is in
\* all_dialects() if and only if transpilers_with_dialect of it is not empty.
C34_EveryDialectHasTranspiler ==
  (query.fn = "with_dialect" /\ query.result.tag = "ok") =>
    (query.args[1] \in all_dialects(listing).val <=> query.result.val # {})

\* C35: version records round-trip: for every version string v,
\* get_installed_version called after _store_product_state(path, v) on a
\* fresh EngineRoot gives exactly v.
C35_VersionRoundTrip ==
  [][(root.state # NoState /\ installed' # installed) => installed' = latest]_vars

\* The round trip of a version string that itself starts with "v".
C35_Witness ==
  /\ root.state # NoState
  /\ latest = Str(<<"v", "1">>)
  /\ installed = latest

\* C36: a successful install returns the same location relative to the
\* EngineRoot whichever installer made it: the one the Pypi installer
\* returns, the lib directory.
C36_SameInstalledPath ==
  (pc = "idle" /\ ret.tag = "path") => ret.val = <<"lib">>

\* The output of "java -version" shows a version whose first two components
\* make a number of 110 or more.
DetectedJava11 ==
  /\ java.exit = "zero"
  /\ java.marker /\ java.open /\ java.close
  /\ Len(java.version) >= 2
  /\ VersionNumber(java.version[1] \o java.version[2]) >= 110

\* C37: install_morpheus starts the Maven install if and only if the
\* detected Java version is 11 or above; for every other outcome of a
\* "java -version" that ran it warns and returns, without installing and
\* without raising.
C37_MorpheusNeedsJava11 ==
  (morpheus.tag # "unset" /\ java.exit \in {"zero", "nonzero"}) =>
    morpheus.tag = (IF DetectedJava11 THEN "install" ELSE "warned")

====
